---------------------------- MODULE Spec2Model ----------------------------
(***************************************************************************)
(* A model of the ez library (colugomusic/ez):                             *)
(*   - ez::value<T> / ez::sync<T> / ez::signalled_sync<T>  (ez.hpp)        *)
(*   - ez::beach_ball<N> / ez::beach_ball_player<N, P>   (ez-extra.hpp)    *)
(* Threads are interleaved at the granularity of the shared accesses the   *)
(* code performs: atomic loads/stores, shared_ptr reference counts,        *)
(* payload writes and mutex acquisitions.                                  *)
(***************************************************************************)
EXTENDS Integers, Sequences, FiniteSets, TLC

\* ------------------------------------------------------------ bounds
MaxVal == 1
MaxSlots == 3
MaxSignal == 2
NPlayers == 3

\* ------------------------------------------------------------ payloads
\* T is modelled as a small integer type; T{} is DefaultT.
DefaultT == 0
\* std::nullopt inside a version's std::optional<T>
Absent == -1
\* an optional<T> observed while set() is writing it
Torn == -2
\* working_value_ after std::move(working_value_) and before the assignment
Moved == -3

Values == 0..MaxVal

Writers == {"w1", "w2"}
Readers == {"r1", "r2"}
NoThread == "none"

VARIABLES
    \* ez::sync<T>
    working_value,        \* sync::working_value_
    mutex,                \* sync::mutex_ (its holder)
    unread_value,         \* sync::unread_value_
    \* ez::value<T>
    writer_value,         \* value::writer_value_
    writer_mutex,         \* value::writer_mutex_ (its holder)
    current_version_ptr,  \* value::current_version_ptr_ (index into versions)
    current_version,      \* value::current_version_ (the writer-held pin)
    versions,             \* value::versions_ (the optional<T> of each version)
    dead_flags,           \* value::dead_flags_
    index_buffer,         \* value::index_buffer_
    \* non-realtime threads
    wpc, warg, widx, wpub,
    \* realtime reader threads calling sync::read(ez::rt)
    rpc, rver, rhist,
    \* ez::sync_signal and ez::signalled_sync<T>, and its realtime thread
    signal_value,         \* sync_signal::value_
    local_signal_value,   \* signalled_sync::local_signal_value_
    signalled_value,      \* signalled_sync::signalled_value_ (0: empty handle)
    spc, sver, shist,
    \* ez::beach_ball and its players
    thrown_to,            \* beach_ball::thrown_to_
    have_ball,            \* beach_ball_player::have_ball_
    bpc, bop, btarget, berr,
    last_throw,           \* history: <<thrower, catcher>> of the last completed throw
    net_catches,          \* history: successful catches minus completed throws
    \* history of the publishes (used only by the properties)
    published, last_stored, last_returned, ret_solo, solo, pristine,
    \* history of the working value: the completed edits composed in the order
    \* of their completion, and what read(ez::nort) returned last (with the
    \* value of applied at that moment)
    applied, nort_ret,
    \* an observer of the publish / gc / read events (used only by the properties)
    obs,
    \* signalled_sync::dbg_check_single_thread (debug builds)
    thread_id,            \* its static std::thread::id (0: std::thread::id{})
    dbg_first,            \* history: the first thread to read each instance (0: none)
    dbg_last              \* history: the last check, [inst, thread, tripped]

syncVars   == <<working_value, mutex, unread_value>>
valueVars  == <<writer_value, writer_mutex, current_version_ptr, current_version,
                versions, dead_flags, index_buffer>>
writerVars == <<wpc, warg, widx, wpub>>
readerVars == <<rpc, rver, rhist>>
sigVars    == <<signal_value, local_signal_value, signalled_value, spc, sver, shist>>
ballVars   == <<thrown_to, have_ball, bpc, bop, btarget, berr, last_throw, net_catches>>
histVars   == <<published, last_stored, last_returned, ret_solo, solo, pristine>>
ghostVars  == <<applied, nort_ret, obs>>
dbgVars    == <<thread_id, dbg_first, dbg_last>>
vars == <<syncVars, valueVars, writerVars, readerVars, sigVars, ballVars, histVars,
         ghostVars, dbgVars>>

\* ------------------------------------------------------------ ez::version<T>
\* shared_ptr::use_count() of versions_[i].ptr_: the deque element itself, the
\* writer-held current_version_, and every copy held by a reader.
use_count(i) ==
    1 + (IF current_version = i THEN 1 ELSE 0)
      + Cardinality({r \in Readers : rpc[r] \in {"copied", "holding"} /\ rver[r] = i})
      + (IF signalled_value = i THEN 1 ELSE 0)
      + (IF spc = "s_xchg" /\ sver = i THEN 1 ELSE 0)

\* mutant: the container's own reference is not counted
is_garbage_strict(i) == use_count(i) < 1
\* mutant: the writer-held pin is not counted
is_garbage_unpinned(i) == use_count(i) <= 2
\* version::is_garbage
is_garbage(i) == use_count(i) <= 1

\* ------------------------------------------------------------ ez::value<T>
HasDead(df) == \E i \in 1..Len(df) : df[i]

\* mutant: the last dead Slot is taken instead of the first
get_empty_version_last(df) ==
    IF HasDead(df)
    THEN CHOOSE i \in 1..Len(df) : df[i] /\ \A j \in (i+1)..Len(df) : ~df[j]
    ELSE Len(df) + 1
\* the index get_empty_version() returns
get_empty_version(df) ==
    IF HasDead(df)
    THEN CHOOSE i \in 1..Len(df) : df[i] /\ \A j \in 1..(i-1) : ~df[j]
    ELSE Len(df) + 1

\* versions_ and dead_flags_ after get_empty_version()
versions_after_get_empty(vs, df) == IF HasDead(df) THEN vs ELSE Append(vs, Absent)
dead_after_get_empty(df) == IF HasDead(df) THEN df ELSE Append(df, TRUE)

RECURSIVE AliveFrom(_, _)
AliveFrom(df, i) ==
    IF i > Len(df) THEN <<>>
    ELSE IF ~df[i] THEN <<i>> \o AliveFrom(df, i + 1)
    ELSE AliveFrom(df, i + 1)
get_alive_versions(df) == AliveFrom(df, 1)

\* The whole of value::modify run alone, as the constructor of sync runs it.
modify_alone(st, v) ==
    LET idx == get_empty_version(st.dead_flags)
        vs  == versions_after_get_empty(st.versions, st.dead_flags)
        df  == dead_after_get_empty(st.dead_flags)
    IN [versions |-> [vs EXCEPT ![idx] = v],
        dead_flags |-> [df EXCEPT ![idx] = FALSE],
        current_version |-> idx,
        current_version_ptr |-> idx,
        writer_value |-> v]

EmptyValue ==
    [versions |-> <<>>, dead_flags |-> <<>>, current_version |-> 0,
     current_version_ptr |-> 0, writer_value |-> DefaultT]

\* mutant: the constructor publishes twice
sync_ctor_twice == modify_alone(modify_alone(EmptyValue, DefaultT), DefaultT)
\* sync::sync() { publish(ez::nort); }
sync_ctor == modify_alone(EmptyValue, DefaultT)

UpdateFn(v) == (v + 1) % (MaxVal + 1)

PubPcs == {"mod_lock", "mod_set", "mod_store", "pub_unread"}
InRead == {"loaded", "copied"}
SigInRead == {"s_load", "s_copy", "s_xchg"}
NoSigHist == [n |-> 0, slot0 |-> 0, val0 |-> DefaultT, slot |-> 0, val |-> DefaultT,
              cand |-> {}]
Players == 0..(NPlayers - 1)
NoHist == [lit |-> FALSE, expLit |-> DefaultT, okLit |-> TRUE,
           quiet |-> FALSE, expQuiet |-> DefaultT, okQuiet |-> TRUE]

\* ------------------------------------------------------------ observer
\* obs follows one scenario at a time (obs.kind, fixed by the initial state);
\* with kind "none" it never changes.
\*   "gc":     stage 1 while a garbage_collect runs during which no handle to a
\*             Slot other than the published one is or has been held, 2 while
\*             another garbage_collect runs, 0 outside garbage_collect
\*   "reuse":  the publishes P1; P2; gc; P3 made while no reader takes or holds
\*             a handle: stage 1 after P1 (obs.slot is the Slot it stored),
\*             2 after P2, 3 after the gc; 0 when the last publish cannot be P1
\*   "pin":    on a new sync, in this order and with nothing else observed in
\*             between: a publish A (stage 1, obs.slot is the Slot it
\*             stored), a read(ez::rt) that starts (2) and returns handle H
\*             (3), a publish B (4), a garbage_collect (5 while it runs, 6
\*             after), the drop of H (7), a second garbage_collect (8 while it
\*             runs, 9 after), the next publish (10); NoScript as soon as
\*             anything else is observed
\*   "unread": stage 1 when some read(ez::rt) has returned a handle to the
\*             payload of the most recent publish, 0 when none has
\*   "edits":  stage 1 when an update or set has completed after which no
\*             publish has started, 0 otherwise (followed in EditSpec)
\*   "mono":   obs.order lists the Slots by the publish number of their latest
\*             payload (publishes numbered as value::modify takes
\*             writer_mutex_), oldest first; obs.ok is the set of Slots whose
\*             payload is not older than the one the reader's last read
\*             returned; stage 1 once a read has returned, 2 once a read has
\*             returned a payload older than an earlier one (followed in
\*             MonoSpec)
\*   "bound":  stage 1 after a publish that no completed garbage_collect has
\*             followed yet (the construction-time publish included), 0 after
\*             that garbage_collect, NoScript once a publish has started in
\*             stage 1; obs.slot is the highest number of handles that have
\*             existed at one time (followed in BoundSpec)
ObsKinds == {"gc", "reuse", "pin", "unread"}
NoScript == -1

ObsInit(kind) ==
    obs = IF kind = "mono"
          THEN [kind |-> kind, stage |-> 0, slot |-> 0,
                order |-> <<sync_ctor.current_version_ptr>>,
                ok |-> {sync_ctor.current_version_ptr}]
          ELSE [kind |-> kind,
                stage |-> IF kind \in {"reuse", "bound"} THEN 1 ELSE 0,
                slot |-> IF kind = "reuse" THEN sync_ctor.current_version_ptr ELSE 0]

\* the Slots of order from the position of Slot slot on
NotOlder(order, slot) ==
    LET at == CHOOSE i \in 1..Len(order) : order[i] = slot
    IN {order[i] : i \in at..Len(order)}

\* value::modify has taken writer_mutex_ and chosen Slot idx: its publish gets
\* the next number
ObsModifyLock(idx) ==
    IF obs.kind = "mono"
    THEN [obs EXCEPT !.order = Append(SelectSeq(@, LAMBDA x : x # idx), idx),
                     !.ok = @ \cup {idx}]
    ELSE IF obs.kind = "bound" /\ obs.stage = 1
    THEN [obs EXCEPT !.stage = NoScript]
    ELSE obs

\* the Slots to which a handle is held (by a reader, or cached by signalled_sync)
HeldSlots ==
    {rver[r] : r \in {x \in Readers : rpc[x] \in {"copied", "holding"}}}
        \cup (IF signalled_value # 0 THEN {signalled_value} ELSE {})
        \cup (IF spc = "s_xchg" THEN {sver} ELSE {})

\* the number of handles that exist (reference counts raised by value::read)
HandleCount ==
    Cardinality({r \in Readers : rpc[r] \in {"copied", "holding"}})
        + (IF signalled_value # 0 THEN 1 ELSE 0)
        + (IF spc = "s_xchg" THEN 1 ELSE 0)

\* the "pin" scenario moves from stage from to stage to, or is over
PinStep(from, to) ==
    [obs EXCEPT !.stage = IF obs.stage = from THEN to
                          ELSE IF obs.stage = 10 THEN 10 ELSE NoScript]

\* value::modify has stored current_version_ptr_ (the publish of writer w)
ObsStore(w) ==
    IF obs.kind = "reuse"
    THEN CASE obs.stage = 0 ->
                  IF HeldSlots = {} /\ \A r \in Readers : rpc[r] = "idle"
                  THEN [obs EXCEPT !.stage = 1, !.slot = widx[w]]
                  ELSE obs
           [] obs.stage = 1 -> [obs EXCEPT !.stage = 2]
           [] obs.stage = 2 -> [obs EXCEPT !.slot = current_version_ptr]
           [] OTHER -> [obs EXCEPT !.stage = 1, !.slot = widx[w]]
    ELSE IF obs.kind = "pin"
    THEN CASE obs.stage = 0 -> [obs EXCEPT !.stage = 1, !.slot = widx[w]]
           [] obs.stage = 3 -> [obs EXCEPT !.stage = 4]
           [] obs.stage = 9 -> [obs EXCEPT !.stage = 10]
           [] OTHER -> [obs EXCEPT !.stage = NoScript]
    ELSE IF obs.kind = "unread" THEN [obs EXCEPT !.stage = 0]
    ELSE IF obs.kind = "bound"
    THEN [obs EXCEPT !.stage = IF @ = 0 THEN 1 ELSE @]
    ELSE obs

\* value::garbage_collect has locked writer_mutex_
ObsGcLock ==
    IF obs.kind = "gc"
    THEN [obs EXCEPT !.stage = IF HeldSlots \subseteq {current_version_ptr} THEN 1 ELSE 2]
    ELSE IF obs.kind = "pin"
    THEN IF obs.stage = 4 THEN PinStep(4, 5) ELSE PinStep(7, 8)
    ELSE obs

\* value::garbage_collect returns
ObsGcDone ==
    IF obs.kind = "gc" THEN [obs EXCEPT !.stage = 0]
    ELSE IF obs.kind = "reuse"
    THEN [obs EXCEPT !.stage = IF obs.stage = 2 THEN 3 ELSE 0]
    ELSE IF obs.kind = "pin"
    THEN IF obs.stage = 5 THEN PinStep(5, 6) ELSE PinStep(8, 9)
    ELSE IF obs.kind = "bound"
    THEN [obs EXCEPT !.stage = IF @ = 1 THEN 0 ELSE @]
    ELSE obs

\* a read(ez::rt) starts
ObsReadStart ==
    IF obs.kind = "reuse" THEN [obs EXCEPT !.stage = 0]
    ELSE IF obs.kind = "pin" THEN PinStep(1, 2)
    ELSE obs

\* value::read has copied the version of Slot slot: a handle to it exists
ObsCopy(slot) ==
    IF obs.kind = "gc" /\ obs.stage = 1 /\ slot # current_version_ptr
    THEN [obs EXCEPT !.stage = 2]
    ELSE IF obs.kind = "pin" THEN PinStep(2, 2)
    ELSE IF obs.kind = "bound" /\ HandleCount + 1 > obs.slot
    THEN [obs EXCEPT !.slot = HandleCount + 1]
    ELSE obs

\* read(ez::rt) returns a handle to Slot slot
ObsReadReturn(slot) ==
    IF obs.kind = "pin"
    THEN IF slot = obs.slot THEN PinStep(2, 3) ELSE PinStep(NoScript, NoScript)
    ELSE IF obs.kind = "unread" /\ slot = current_version_ptr
    THEN [obs EXCEPT !.stage = 1]
    ELSE IF obs.kind = "mono"
    THEN IF obs.stage = 2 THEN obs
         ELSE IF obs.stage = 1 /\ slot \notin obs.ok THEN [obs EXCEPT !.stage = 2]
         ELSE [obs EXCEPT !.stage = 1, !.slot = slot, !.ok = NotOlder(obs.order, slot)]
    ELSE obs

\* an update or a set has completed
ObsEdit ==
    IF obs.kind = "edits" THEN [obs EXCEPT !.stage = 1]
    ELSE obs

\* a publish starts
ObsPublishStart ==
    IF obs.kind = "edits" THEN [obs EXCEPT !.stage = 0]
    ELSE obs

\* a handle is dropped
ObsDrop ==
    IF obs.kind = "pin" THEN PinStep(6, 7)
    ELSE obs

\* ------------------------------------------------------------ initial state
\* The state after sync<T>'s constructor (and, for the signalled cell and the
\* beach ball, after theirs).
SyncInit ==
    /\ working_value = DefaultT
    /\ mutex = NoThread
    /\ unread_value = TRUE
    /\ writer_value = sync_ctor.writer_value
    /\ writer_mutex = NoThread
    /\ current_version_ptr = sync_ctor.current_version_ptr
    /\ current_version = sync_ctor.current_version
    /\ versions = sync_ctor.versions
    /\ dead_flags = sync_ctor.dead_flags
    /\ index_buffer = <<>>
    /\ wpc = [w \in Writers |-> "idle"]
    /\ warg = [w \in Writers |-> DefaultT]
    /\ widx = [w \in Writers |-> 0]
    /\ wpub = [w \in Writers |-> FALSE]
    /\ rpc = [r \in Readers |-> "idle"]
    /\ rver = [r \in Readers |-> 0]
    /\ rhist = [r \in Readers |-> NoHist]
    /\ published = {DefaultT}
    /\ last_stored = DefaultT
    /\ last_returned = DefaultT
    /\ ret_solo = TRUE
    /\ solo = [w \in Writers |-> FALSE]
    /\ pristine = TRUE
    /\ applied = DefaultT
    /\ nort_ret = <<DefaultT, DefaultT>>

\* ------------------------------------------------------------ ez::sync<T>, writers
\* A publish has started: it overlaps with the publishes and the reads in
\* flight. solo[w] tells that no other publish has been in progress since w's
\* publish started.
NotePublishStart(w, v) ==
    /\ published' = published \cup {v}
    /\ solo' = [x \in Writers |-> x = w /\ \A y \in Writers \ {w} : wpc[y] \notin PubPcs]
    /\ ret_solo' = FALSE
    /\ last_returned' = DefaultT
    /\ rhist' = [r \in Readers |->
                    IF rpc[r] \in InRead
                    THEN [rhist[r] EXCEPT !.lit = FALSE, !.expLit = DefaultT,
                                          !.quiet = FALSE, !.expQuiet = DefaultT]
                    ELSE rhist[r]]

\* sync::update / sync::update_publish, first half: lock mutex_, move the
\* working value into fn's argument.
\* mutant: update also raises the unread flag
UpdateBegin_publishes(w, pub) ==
    /\ wpc[w] = "idle"
    /\ mutex = NoThread
    /\ mutex' = w
    /\ warg' = [warg EXCEPT ![w] = working_value]
    /\ working_value' = Moved
    /\ unread_value' = TRUE
    /\ wpub' = [wpub EXCEPT ![w] = pub]
    /\ wpc' = [wpc EXCEPT ![w] = "update"]
    /\ pristine' = FALSE
    /\ UNCHANGED <<valueVars, widx, readerVars, sigVars, ballVars,
                   published, last_stored, last_returned, ret_solo, solo, ghostVars,
                   dbgVars>>
\* mutant: update does not lock mutex_
UpdateBegin_unlocked(w, pub) ==
    /\ wpc[w] = "idle"
    /\ warg' = [warg EXCEPT ![w] = working_value]
    /\ working_value' = Moved
    /\ wpub' = [wpub EXCEPT ![w] = pub]
    /\ wpc' = [wpc EXCEPT ![w] = "update"]
    /\ pristine' = FALSE
    /\ UNCHANGED <<mutex, unread_value, valueVars, widx, readerVars, sigVars, ballVars,
                   published, last_stored, last_returned, ret_solo, solo, ghostVars,
                   dbgVars>>
UpdateBegin(w, pub) ==
    /\ wpc[w] = "idle"
    /\ mutex = NoThread
    /\ mutex' = w
    /\ warg' = [warg EXCEPT ![w] = working_value]
    /\ working_value' = Moved
    /\ wpub' = [wpub EXCEPT ![w] = pub]
    /\ wpc' = [wpc EXCEPT ![w] = "update"]
    /\ pristine' = FALSE
    /\ UNCHANGED <<unread_value, valueVars, widx, readerVars, sigVars, ballVars,
                   published, last_stored, last_returned, ret_solo, solo, ghostVars,
                   dbgVars>>

\* second half: working_value_ = fn(...), unlock; update_publish goes on to publish.
UpdateEnd(w) ==
    /\ wpc[w] = "update"
    /\ working_value' = UpdateFn(warg[w])
    /\ mutex' = NoThread
    /\ warg' = [warg EXCEPT ![w] = DefaultT]
    /\ wpub' = [wpub EXCEPT ![w] = FALSE]
    /\ wpc' = [wpc EXCEPT ![w] = IF wpub[w] THEN "publish" ELSE "idle"]
    /\ applied' = UpdateFn(applied)
    /\ obs' = ObsEdit
    /\ UNCHANGED <<unread_value, valueVars, widx, readerVars, sigVars, ballVars, histVars,
                   nort_ret, dbgVars>>

\* sync::set / sync::set_publish: working_value_ = value under mutex_.
Set(w, v, pub) ==
    /\ wpc[w] = "idle"
    /\ mutex = NoThread
    /\ working_value' = v
    /\ wpc' = [wpc EXCEPT ![w] = IF pub THEN "publish" ELSE "idle"]
    /\ pristine' = FALSE
    /\ applied' = v
    /\ obs' = ObsEdit
    /\ UNCHANGED <<mutex, unread_value, valueVars, warg, widx, wpub, readerVars, sigVars,
                   ballVars, published, last_stored, last_returned, ret_solo, solo, nort_ret,
                   dbgVars>>

\* sync::read(ez::nort): lock mutex_, return a copy of working_value_, unlock.
ReadNort(w) ==
    /\ wpc[w] = "idle"
    /\ mutex = NoThread
    /\ nort_ret' = <<working_value, applied>>
    /\ UNCHANGED <<syncVars, valueVars, writerVars, readerVars, sigVars, ballVars, histVars,
                   applied, obs, dbgVars>>

\* sync::publish, its argument: published_value_.set(ez::nort, working_value_)
\* copies working_value_ without holding mutex_.
PublishCopy(w) ==
    /\ wpc[w] \in {"idle", "publish"}
    /\ warg' = [warg EXCEPT ![w] = working_value]
    /\ wpc' = [wpc EXCEPT ![w] = "mod_lock"]
    /\ pristine' = FALSE
    /\ NotePublishStart(w, working_value)
    /\ obs' = ObsPublishStart
    /\ UNCHANGED <<syncVars, valueVars, widx, wpub, rpc, rver, sigVars, ballVars,
                   last_stored, applied, nort_ret, dbgVars>>

\* versions_ is a std::deque and grows without limit; the model follows it up
\* to MaxSlots Slots, and one Slot further where the observer follows the Slot
\* count, so that the count R + 2 for one handle lies below the cap
SlotCap == IF obs.kind = "bound" THEN MaxSlots + 1 ELSE MaxSlots

\* value::modify up to the start of versions_[index].set(new_value): lock
\* writer_mutex_, writer_value_ = new_value, get_empty_version(),
\* current_version_ = versions_[index], and the optional starts being written.
\* (Nothing between the lock and the write is visible to another thread: the
\* other writers and garbage_collect are excluded by writer_mutex_, and readers
\* only ever raise use counts.)
\* Once a failed append has left versions_ longer than dead_flags_, a growth is
\* not followed: the assert of get_empty_version fails, and dead_flags_[index]
\* is out of range.
ModifyLock(w) ==
    /\ wpc[w] = "mod_lock"
    /\ writer_mutex = NoThread
    /\ HasDead(dead_flags) \/ (Len(versions) < SlotCap /\ Len(versions) = Len(dead_flags))
    /\ writer_mutex' = w
    /\ writer_value' = warg[w]
    /\ versions' = [versions_after_get_empty(versions, dead_flags)
                       EXCEPT ![get_empty_version(dead_flags)] = Torn]
    /\ dead_flags' = dead_after_get_empty(dead_flags)
    /\ widx' = [widx EXCEPT ![w] = get_empty_version(dead_flags)]
    /\ current_version' = get_empty_version(dead_flags)
    /\ wpc' = [wpc EXCEPT ![w] = "mod_set"]
    /\ obs' = ObsModifyLock(get_empty_version(dead_flags))
    /\ UNCHANGED <<syncVars, current_version_ptr, index_buffer, warg, wpub, readerVars,
                   sigVars, ballVars, histVars, applied, nort_ret, dbgVars>>

\* value::modify when get_empty_version() has to grow the collections and the
\* append fails (std::bad_alloc): at = "versions" when versions_.emplace_back()
\* throws (the deque is left as it was), at = "dead_flags" when
\* dead_flags_.push_back(true) throws after the Slot has been appended.  By then
\* writer_value_ = new_value has been executed.  The exception leaves modify
\* (the lock_guard unlocks writer_mutex_) and sync::publish, whose
\* unread_value_.store(true) is not reached.
AllocPoints == {"versions", "dead_flags"}

ModifyAllocFail(w, at) ==
    /\ wpc[w] = "mod_lock"
    /\ writer_mutex = NoThread
    /\ ~HasDead(dead_flags)
    /\ Len(versions) = Len(dead_flags)
    /\ writer_value' = warg[w]
    /\ versions' = IF at = "dead_flags" THEN Append(versions, Absent) ELSE versions
    /\ warg' = [warg EXCEPT ![w] = DefaultT]
    /\ wpc' = [wpc EXCEPT ![w] = "idle"]
    /\ solo' = [solo EXCEPT ![w] = FALSE]
    /\ UNCHANGED <<syncVars, writer_mutex, current_version_ptr, current_version,
                   dead_flags, index_buffer, widx, wpub, readerVars, sigVars, ballVars,
                   published, last_stored, last_returned, ret_solo, pristine, ghostVars,
                   dbgVars>>

\* versions_[index].set(new_value) has written the optional
ModifySet(w) ==
    /\ wpc[w] = "mod_set"
    /\ versions' = [versions EXCEPT ![widx[w]] = warg[w]]
    /\ wpc' = [wpc EXCEPT ![w] = "mod_store"]
    /\ UNCHANGED <<syncVars, writer_value, writer_mutex, current_version_ptr,
                   current_version, dead_flags, index_buffer, warg, widx, wpub,
                   readerVars, sigVars, ballVars, histVars, ghostVars, dbgVars>>

\* dead_flags_[index] = false; current_version_ptr_.store(&versions_[index]); unlock.
ModifyStore(w) ==
    /\ wpc[w] = "mod_store"
    /\ dead_flags' = [dead_flags EXCEPT ![widx[w]] = FALSE]
    /\ current_version_ptr' = widx[w]
    /\ writer_mutex' = NoThread
    /\ widx' = [widx EXCEPT ![w] = 0]
    /\ wpc' = [wpc EXCEPT ![w] = "pub_unread"]
    /\ last_stored' = warg[w]
    /\ shist' = IF spc \in SigInRead
                THEN [shist EXCEPT !.cand = @ \cup {warg[w]}]
                ELSE shist
    /\ obs' = ObsStore(w)
    /\ UNCHANGED <<syncVars, writer_value, current_version, versions, index_buffer,
                   warg, wpub, readerVars, signal_value, local_signal_value,
                   signalled_value, spc, sver, ballVars,
                   published, last_returned, ret_solo, solo, pristine, applied, nort_ret,
                   dbgVars>>

\* sync::publish, after set returns: unread_value_.store(true); publish returns.
PublishUnread(w) ==
    /\ wpc[w] = "pub_unread"
    /\ unread_value' = TRUE
    /\ warg' = [warg EXCEPT ![w] = DefaultT]
    /\ wpc' = [wpc EXCEPT ![w] = "idle"]
    /\ last_returned' = IF solo[w] THEN warg[w] ELSE DefaultT
    /\ ret_solo' = solo[w]
    /\ solo' = [solo EXCEPT ![w] = FALSE]
    /\ UNCHANGED <<working_value, mutex, valueVars, widx, wpub, readerVars, sigVars,
                   ballVars, published, last_stored, pristine, ghostVars, dbgVars>>

\* sync::gc -> value::garbage_collect: lock, get_alive_versions(&index_buffer_).
GcLock(w) ==
    /\ wpc[w] = "idle"
    /\ writer_mutex = NoThread
    /\ writer_mutex' = w
    /\ index_buffer' = get_alive_versions(dead_flags)
    /\ widx' = [widx EXCEPT ![w] = 1]
    /\ wpc' = [wpc EXCEPT ![w] = "gc_loop"]
    /\ pristine' = FALSE
    /\ obs' = ObsGcLock
    /\ UNCHANGED <<syncVars, writer_value, current_version_ptr, current_version, versions,
                   dead_flags, warg, wpub, readerVars, sigVars, ballVars,
                   published, last_stored, last_returned, ret_solo, solo, applied, nort_ret,
                   dbgVars>>

\* the loop head and if (version.is_garbage())
GcCheck(w) ==
    /\ wpc[w] = "gc_loop"
    /\ widx[w] <= Len(index_buffer)
    /\ IF is_garbage(index_buffer[widx[w]])
       THEN /\ wpc' = [wpc EXCEPT ![w] = "gc_clear"]
            /\ widx' = widx
       ELSE /\ wpc' = wpc
            /\ widx' = [widx EXCEPT ![w] = @ + 1]
    /\ UNCHANGED <<syncVars, valueVars, warg, wpub, readerVars, sigVars, ballVars,
                   histVars, ghostVars, dbgVars>>

\* version.clear(); dead_flags_[index] = true
GcClear(w) ==
    /\ wpc[w] = "gc_clear"
    /\ versions' = [versions EXCEPT ![index_buffer[widx[w]]] = Absent]
    /\ dead_flags' = [dead_flags EXCEPT ![index_buffer[widx[w]]] = TRUE]
    /\ widx' = [widx EXCEPT ![w] = @ + 1]
    /\ wpc' = [wpc EXCEPT ![w] = "gc_loop"]
    /\ UNCHANGED <<syncVars, writer_value, writer_mutex, current_version_ptr,
                   current_version, index_buffer, warg, wpub, readerVars, sigVars,
                   ballVars, histVars, ghostVars, dbgVars>>

\* the loop is over: unlock
GcDone(w) ==
    /\ wpc[w] = "gc_loop"
    /\ widx[w] > Len(index_buffer)
    /\ writer_mutex' = NoThread
    /\ index_buffer' = <<>>
    /\ widx' = [widx EXCEPT ![w] = 0]
    /\ wpc' = [wpc EXCEPT ![w] = "idle"]
    /\ obs' = ObsGcDone
    /\ UNCHANGED <<syncVars, writer_value, current_version_ptr, current_version, versions,
                   dead_flags, warg, wpub, readerVars, sigVars, ballVars, histVars,
                   applied, nort_ret, dbgVars>>

\* ------------------------------------------------------------ sync::read(ez::rt)
\* value::read: current_version_ptr_.load(acquire)
RtLoad(r) ==
    /\ rpc[r] = "idle"
    /\ rver' = [rver EXCEPT ![r] = current_version_ptr]
    /\ rpc' = [rpc EXCEPT ![r] = "loaded"]
    /\ rhist' = [rhist EXCEPT ![r] =
                    [lit |-> ret_solo,
                     expLit |-> IF ret_solo THEN last_returned ELSE DefaultT,
                     okLit |-> TRUE,
                     quiet |-> \A w \in Writers : wpc[w] \notin PubPcs,
                     expQuiet |-> IF \A w \in Writers : wpc[w] \notin PubPcs
                                  THEN last_stored ELSE DefaultT,
                     okQuiet |-> TRUE]]
    /\ obs' = ObsReadStart
    /\ UNCHANGED <<syncVars, valueVars, writerVars, sigVars, ballVars, histVars, applied,
                   nort_ret, dbgVars>>

\* value::read: auto version = *ptr (the shared_ptr copy raises use_count);
\* return immutable<T>{version}
RtCopy(r) ==
    /\ rpc[r] = "loaded"
    /\ rpc' = [rpc EXCEPT ![r] = "copied"]
    /\ obs' = ObsCopy(rver[r])
    /\ UNCHANGED <<syncVars, valueVars, writerVars, rver, rhist, sigVars, ballVars,
                   histVars, applied, nort_ret, dbgVars>>

\* unread_value_.exchange(false); return value
RtExchange(r) ==
    /\ rpc[r] = "copied"
    /\ unread_value' = FALSE
    /\ rpc' = [rpc EXCEPT ![r] = "holding"]
    /\ rhist' = [rhist EXCEPT ![r] =
                    [lit |-> @.lit, expLit |-> DefaultT,
                     okLit |-> (@.lit => versions[rver[r]] = @.expLit),
                     quiet |-> @.quiet, expQuiet |-> DefaultT,
                     okQuiet |-> (@.quiet => versions[rver[r]] = @.expQuiet)]]
    /\ obs' = ObsReadReturn(rver[r])
    /\ UNCHANGED <<working_value, mutex, valueVars, writerVars, rver, sigVars, ballVars,
                   histVars, applied, nort_ret, dbgVars>>

\* ~immutable<T>: the reader drops its handle
Drop(r) ==
    /\ rpc[r] = "holding"
    /\ rpc' = [rpc EXCEPT ![r] = "idle"]
    /\ rver' = [rver EXCEPT ![r] = 0]
    /\ rhist' = [rhist EXCEPT ![r] = NoHist]
    /\ obs' = ObsDrop
    /\ UNCHANGED <<syncVars, valueVars, writerVars, sigVars, ballVars, histVars, applied,
                   nort_ret, dbgVars>>

\* ------------------------------------------------------------ sync_signal, signalled_sync
SigInit ==
    /\ signal_value = 1
    /\ local_signal_value = 0
    /\ signalled_value = 0
    /\ spc = "idle"
    /\ sver = 0
    /\ shist = NoSigHist

\* The realtime thread has got a handle back from signalled_sync::read(ez::rt).
NoteSigReturn(slot) ==
    LET v == IF slot = 0 THEN Absent ELSE versions[slot]
    IN IF shist.n = 0
       THEN [shist EXCEPT !.n = 1, !.slot0 = slot, !.val0 = v, !.slot = slot, !.val = v]
       ELSE [shist EXCEPT !.n = 2, !.slot = slot, !.val = v]

\* sync_signal::increment, called by the realtime thread at the start of a frame
\* mutant: fetch_add(2)
SigIncrement_by_two ==
    /\ spc = "idle"
    /\ signal_value < MaxSignal
    /\ signal_value' = signal_value + 2
    /\ shist' = NoSigHist
    /\ UNCHANGED <<syncVars, valueVars, writerVars, readerVars, local_signal_value,
                   signalled_value, spc, sver, ballVars, histVars, ghostVars, dbgVars>>
SigIncrement ==
    /\ spc = "idle"
    /\ signal_value < MaxSignal
    /\ signal_value' = signal_value + 1
    /\ shist' = NoSigHist
    /\ UNCHANGED <<syncVars, valueVars, writerVars, readerVars, local_signal_value,
                   signalled_value, spc, sver, ballVars, histVars, ghostVars, dbgVars>>

\* signalled_sync::read: if (signal_value > local_signal_value_)
RefreshNeeded(sig, loc) == sig > loc

\* signalled_sync::read up to the call of sync<T>::read(ez::rt)
SigReadRefresh ==
    /\ spc = "idle"
    /\ RefreshNeeded(signal_value, local_signal_value)
    /\ local_signal_value' = signal_value
    /\ spc' = "s_load"
    /\ shist' = [shist EXCEPT !.cand = {versions[current_version_ptr]}]
    /\ UNCHANGED <<syncVars, valueVars, writerVars, readerVars, signal_value,
                   signalled_value, sver, ballVars, histVars, ghostVars, dbgVars>>

\* signalled_sync::read when the signal has not moved: return signalled_value_
SigReadCached ==
    /\ spc = "idle"
    /\ ~RefreshNeeded(signal_value, local_signal_value)
    /\ shist' = NoteSigReturn(signalled_value)
    /\ UNCHANGED <<syncVars, valueVars, writerVars, readerVars, signal_value,
                   local_signal_value, signalled_value, spc, sver, ballVars, histVars, ghostVars,
                   dbgVars>>

\* sync::read(ez::rt) -> value::read: current_version_ptr_.load(acquire)
\* mutant: the load waits for writer_mutex_ to be free
SigLoad_waits ==
    /\ spc = "s_load"
    /\ writer_mutex = NoThread
    /\ sver' = current_version_ptr
    /\ spc' = "s_copy"
    /\ UNCHANGED <<syncVars, valueVars, writerVars, readerVars, signal_value,
                   local_signal_value, signalled_value, shist, ballVars, histVars, ghostVars,
                   dbgVars>>
SigLoad ==
    /\ spc = "s_load"
    /\ sver' = current_version_ptr
    /\ spc' = "s_copy"
    /\ UNCHANGED <<syncVars, valueVars, writerVars, readerVars, signal_value,
                   local_signal_value, signalled_value, shist, ballVars, histVars, ghostVars,
                   dbgVars>>

\* value::read: the copy of the version (use_count rises)
SigCopy ==
    /\ spc = "s_copy"
    /\ spc' = "s_xchg"
    /\ obs' = ObsCopy(sver)
    /\ UNCHANGED <<syncVars, valueVars, writerVars, readerVars, signal_value,
                   local_signal_value, signalled_value, sver, shist, ballVars, histVars,
                   applied, nort_ret, dbgVars>>

\* unread_value_.exchange(false); signalled_value_ = <the handle>; return it
SigExchange ==
    /\ spc = "s_xchg"
    /\ unread_value' = FALSE
    /\ signalled_value' = sver
    /\ sver' = 0
    /\ spc' = "idle"
    /\ shist' = NoteSigReturn(sver)
    /\ UNCHANGED <<working_value, mutex, valueVars, writerVars, readerVars, signal_value,
                   local_signal_value, ballVars, histVars, ghostVars, dbgVars>>

\* ------------------------------------------------------------ debug check
\* signalled_sync<T>::dbg_check_single_thread, compiled when _DEBUG is set.  Its
\* thread_id is a function-local static: one object for all the instances of
\* signalled_sync<T>.  The instances of one T and the realtime threads:
NInstances == 3
NRtThreads == 3
Instances == 1..NInstances
RtThreads == 1..NRtThreads

DbgInit ==
    /\ thread_id = 0
    /\ dbg_first = [i \in Instances |-> 0]
    /\ dbg_last = [inst |-> 0, thread |-> 0, tripped |-> FALSE]

\* thread_id after the check made by thread t
dbg_thread_id_after(id, t) == IF id = 0 THEN t ELSE id

\* the assert of the check made by thread t fails
dbg_assert_fails(id, t) == id # 0 /\ id # t

\* signalled_sync::read(ez::rt) on instance i called by thread t, in a debug
\* build, up to the end of dbg_check_single_thread(); a failed assert ends the
\* program.
DbgRead(i, t) ==
    /\ ~dbg_last.tripped
    /\ thread_id' = dbg_thread_id_after(thread_id, t)
    /\ dbg_first' = [dbg_first EXCEPT ![i] = IF @ = 0 THEN t ELSE @]
    /\ dbg_last' = [inst |-> i, thread |-> t, tripped |-> dbg_assert_fails(thread_id, t)]
    /\ UNCHANGED <<syncVars, valueVars, writerVars, readerVars, sigVars, ballVars,
                   histVars, ghostVars>>

\* ------------------------------------------------------------ beach_ball
\* beach_ball(catcher first_catcher): thrown_to_.store(first_catcher.v)
BallCtor(first_catcher) ==
    /\ thrown_to = first_catcher
    /\ have_ball = [p \in Players |-> FALSE]
    /\ bpc = [p \in Players |-> "idle"]
    /\ bop = [p \in Players |-> "none"]
    /\ btarget = [p \in Players |-> -1]
    /\ berr = [p \in Players |-> FALSE]
    /\ last_throw = <<-1, -1>>
    /\ net_catches = 0

BallInit == \E c \in Players : BallCtor(c)

\* mutant: the compare-exchange expects -1, the value it stores
CasSucceeds_never(cur, p) == cur = -1 /\ p = -1
\* mutant: an exchange instead of a compare-exchange
CasSucceeds_always(cur, p) == TRUE
\* beach_ball::catch_ball: thrown_to_.compare_exchange_strong(tmp = Catcher.v, -1)
CasSucceeds(cur, p) == cur = p

\* beach_ball_player::catch_ball when have_ball_: throw std::logic_error
\* mutant: the compare-exchange is attempted all the same
CatchError_attempts(p) ==
    /\ bpc[p] = "idle"
    /\ have_ball[p]
    /\ berr' = [berr EXCEPT ![p] = TRUE]
    /\ bpc' = [bpc EXCEPT ![p] = "cas"]
    /\ UNCHANGED <<syncVars, valueVars, writerVars, readerVars, sigVars, histVars,
                   thrown_to, have_ball, bop, btarget, last_throw, ghostVars, net_catches,
                   dbgVars>>
CatchError(p) ==
    /\ bpc[p] = "idle"
    /\ have_ball[p]
    /\ berr' = [berr EXCEPT ![p] = TRUE]
    /\ UNCHANGED <<syncVars, valueVars, writerVars, readerVars, sigVars, histVars,
                   thrown_to, have_ball, bpc, bop, btarget, last_throw, ghostVars, net_catches,
                   dbgVars>>

\* beach_ball_player::catch_ball (or ensure) called without the ball: the next
\* step is the compare-exchange.
CatchBegin(p, op) ==
    /\ bpc[p] = "idle"
    /\ ~have_ball[p]
    /\ bpc' = [bpc EXCEPT ![p] = "cas"]
    /\ bop' = [bop EXCEPT ![p] = op]
    /\ berr' = [berr EXCEPT ![p] = FALSE]
    /\ UNCHANGED <<syncVars, valueVars, writerVars, readerVars, sigVars, histVars,
                   thrown_to, have_ball, btarget, last_throw, ghostVars, net_catches,
                   dbgVars>>

\* with_ball<q>(fn) called without the ball: ensure() -> catch_ball()
WithBegin(p, q) ==
    /\ bpc[p] = "idle"
    /\ ~have_ball[p]
    /\ q # p
    /\ bpc' = [bpc EXCEPT ![p] = "cas"]
    /\ bop' = [bop EXCEPT ![p] = "with"]
    /\ btarget' = [btarget EXCEPT ![p] = q]
    /\ berr' = [berr EXCEPT ![p] = FALSE]
    /\ UNCHANGED <<syncVars, valueVars, writerVars, readerVars, sigVars, histVars,
                   thrown_to, have_ball, last_throw, ghostVars, net_catches, dbgVars>>

\* the compare-exchange succeeds: thrown_to_ becomes catcher{}.v = -1
CasCaught(p) ==
    /\ bpc[p] = "cas"
    /\ CasSucceeds(thrown_to, p)
    /\ thrown_to' = -1
    /\ bpc' = [bpc EXCEPT ![p] = "caught"]
    /\ UNCHANGED <<syncVars, valueVars, writerVars, readerVars, sigVars, histVars,
                   have_ball, bop, btarget, berr, last_throw, ghostVars, net_catches,
                   dbgVars>>

\* the compare-exchange fails: catch_ball returns false (and so do ensure, with_ball)
\* mutant: the failed compare-exchange stores -1 all the same
CasMissed_stores(p) ==
    /\ bpc[p] = "cas"
    /\ ~CasSucceeds(thrown_to, p)
    /\ thrown_to' = -1
    /\ bpc' = [bpc EXCEPT ![p] = "idle"]
    /\ bop' = [bop EXCEPT ![p] = "none"]
    /\ btarget' = [btarget EXCEPT ![p] = -1]
    /\ UNCHANGED <<syncVars, valueVars, writerVars, readerVars, sigVars, histVars,
                   have_ball, berr, last_throw, ghostVars, net_catches, dbgVars>>
CasMissed(p) ==
    /\ bpc[p] = "cas"
    /\ ~CasSucceeds(thrown_to, p)
    /\ bpc' = [bpc EXCEPT ![p] = "idle"]
    /\ bop' = [bop EXCEPT ![p] = "none"]
    /\ btarget' = [btarget EXCEPT ![p] = -1]
    /\ UNCHANGED <<syncVars, valueVars, writerVars, readerVars, sigVars, histVars,
                   thrown_to, have_ball, berr, last_throw, ghostVars, net_catches,
                   dbgVars>>

\* have_ball_ = true; return have_ball_; with_ball goes on to fn()
\* mutant: with_ball returns after the catch without calling fn()
CatchSet_returns(p) ==
    /\ bpc[p] = "caught"
    /\ have_ball' = [have_ball EXCEPT ![p] = TRUE]
    /\ bpc' = [bpc EXCEPT ![p] = "idle"]
    /\ bop' = [bop EXCEPT ![p] = "none"]
    /\ net_catches' = net_catches + 1
    /\ UNCHANGED <<syncVars, valueVars, writerVars, readerVars, sigVars, histVars,
                   thrown_to, btarget, berr, last_throw, ghostVars, dbgVars>>
CatchSet(p) ==
    /\ bpc[p] = "caught"
    /\ have_ball' = [have_ball EXCEPT ![p] = TRUE]
    /\ bpc' = [bpc EXCEPT ![p] = IF bop[p] = "with" THEN "fn" ELSE "idle"]
    /\ bop' = [bop EXCEPT ![p] = IF bop[p] = "with" THEN "with" ELSE "none"]
    /\ net_catches' = net_catches + 1
    /\ UNCHANGED <<syncVars, valueVars, writerVars, readerVars, sigVars, histVars,
                   thrown_to, btarget, berr, last_throw, ghostVars, dbgVars>>

\* ensure() with the ball already held returns true at once
EnsureHeld(p) ==
    /\ bpc[p] = "idle"
    /\ have_ball[p]
    /\ berr' = [berr EXCEPT ![p] = FALSE]
    /\ UNCHANGED <<syncVars, valueVars, writerVars, readerVars, sigVars, histVars,
                   thrown_to, have_ball, bpc, bop, btarget, last_throw, ghostVars, net_catches,
                   dbgVars>>

\* with_ball<q>(fn) with the ball already held: ensure() is true, fn() starts
WithHeld(p, q) ==
    /\ bpc[p] = "idle"
    /\ have_ball[p]
    /\ q # p
    /\ bpc' = [bpc EXCEPT ![p] = "fn"]
    /\ bop' = [bop EXCEPT ![p] = "with"]
    /\ btarget' = [btarget EXCEPT ![p] = q]
    /\ berr' = [berr EXCEPT ![p] = FALSE]
    /\ UNCHANGED <<syncVars, valueVars, writerVars, readerVars, sigVars, histVars,
                   thrown_to, have_ball, last_throw, ghostVars, net_catches, dbgVars>>

\* beach_ball_player::throw_to without the ball: throw std::logic_error
\* mutant: the ball is thrown before the error is reported
ThrowError_stores(p) ==
    /\ bpc[p] = "idle"
    /\ ~have_ball[p]
    /\ berr' = [berr EXCEPT ![p] = TRUE]
    /\ thrown_to' = (p + 1) % NPlayers
    /\ UNCHANGED <<syncVars, valueVars, writerVars, readerVars, sigVars, histVars,
                   have_ball, bpc, bop, btarget, last_throw, ghostVars, net_catches,
                   dbgVars>>
ThrowError(p) ==
    /\ bpc[p] = "idle"
    /\ ~have_ball[p]
    /\ berr' = [berr EXCEPT ![p] = TRUE]
    /\ UNCHANGED <<syncVars, valueVars, writerVars, readerVars, sigVars, histVars,
                   thrown_to, have_ball, bpc, bop, btarget, last_throw, ghostVars, net_catches,
                   dbgVars>>

\* beach_ball_player::throw_to<q>: have_ball_ = false (called directly, or by
\* with_ball once fn() has returned)
\* mutant: have_ball_ is not cleared
ThrowBegin_keeps(p, q) ==
    /\ \/ bpc[p] = "idle" /\ q # p
       \/ bpc[p] = "fn" /\ q = btarget[p]
    /\ have_ball[p]
    /\ bpc' = [bpc EXCEPT ![p] = "throw_store"]
    /\ bop' = [bop EXCEPT ![p] = "throw"]
    /\ btarget' = [btarget EXCEPT ![p] = q]
    /\ berr' = [berr EXCEPT ![p] = FALSE]
    /\ UNCHANGED <<syncVars, valueVars, writerVars, readerVars, sigVars, histVars,
                   thrown_to, have_ball, last_throw, ghostVars, net_catches, dbgVars>>
ThrowBegin(p, q) ==
    /\ \/ bpc[p] = "idle" /\ q # p
       \/ bpc[p] = "fn" /\ q = btarget[p]
    /\ have_ball[p]
    /\ have_ball' = [have_ball EXCEPT ![p] = FALSE]
    /\ bpc' = [bpc EXCEPT ![p] = "throw_store"]
    /\ bop' = [bop EXCEPT ![p] = "throw"]
    /\ btarget' = [btarget EXCEPT ![p] = q]
    /\ berr' = [berr EXCEPT ![p] = FALSE]
    /\ UNCHANGED <<syncVars, valueVars, writerVars, readerVars, sigVars, histVars,
                   thrown_to, last_throw, ghostVars, net_catches, dbgVars>>

\* beach_ball::throw_to: thrown_to_.store(Catcher.v, release)
ThrowStore(p) ==
    /\ bpc[p] = "throw_store"
    /\ thrown_to' = btarget[p]
    /\ last_throw' = <<p, btarget[p]>>
    /\ bpc' = [bpc EXCEPT ![p] = "idle"]
    /\ bop' = [bop EXCEPT ![p] = "none"]
    /\ btarget' = [btarget EXCEPT ![p] = -1]
    /\ net_catches' = net_catches - 1
    /\ UNCHANGED <<syncVars, valueVars, writerVars, readerVars, sigVars, histVars,
                   have_ball, berr, ghostVars, dbgVars>>

\* ------------------------------------------------------------ specifications
\* update, update_publish, set, set_publish up to their publish
EditNext(w) ==
    \/ \E pub \in BOOLEAN : UpdateBegin(w, pub)
    \/ UpdateEnd(w)
    \/ \E v \in Values, pub \in BOOLEAN : Set(w, v, pub)

\* publish
PublishNext(w) ==
    \/ PublishCopy(w)
    \/ ModifyLock(w)
    \/ ModifySet(w)
    \/ ModifyStore(w)
    \/ PublishUnread(w)

\* gc
GcNext(w) == GcLock(w) \/ GcCheck(w) \/ GcClear(w) \/ GcDone(w)

WriterNext(w) == EditNext(w) \/ PublishNext(w) \/ GcNext(w)

ReaderNext(r) == RtLoad(r) \/ RtCopy(r) \/ RtExchange(r) \/ Drop(r)

SigNext ==
    SigIncrement \/ SigReadRefresh \/ SigReadCached \/ SigLoad \/ SigCopy \/ SigExchange

PlayerNext(p) ==
    \/ CatchError(p)
    \/ \E op \in {"catch", "ensure"} : CatchBegin(p, op)
    \/ \E q \in Players : WithBegin(p, q)
    \/ CasCaught(p)
    \/ CasMissed(p)
    \/ CatchSet(p)
    \/ EnsureHeld(p)
    \/ \E q \in Players : WithHeld(p, q)
    \/ ThrowError(p)
    \/ \E q \in Players : ThrowBegin(p, q)
    \/ ThrowStore(p)

\* every step of player p that is not a call rejected with std::logic_error
PlayerProgress(p) ==
    \/ \E op \in {"catch", "ensure"} : CatchBegin(p, op)
    \/ \E q \in Players : WithBegin(p, q)
    \/ CasCaught(p)
    \/ CasMissed(p)
    \/ CatchSet(p)
    \/ \E q \in Players : WithHeld(p, q)
    \/ \E q \in Players : ThrowBegin(p, q)
    \/ ThrowStore(p)

Init == SyncInit /\ SigInit /\ BallCtor(0) /\ ObsInit("none") /\ DbgInit
Next == WriterNext("w1") \/ ReaderNext("r1")
\* sync<T> with one non-realtime thread and one realtime reader
Spec == Init /\ [][Next]_vars

ReadersNext == WriterNext("w1") \/ (\E r \in Readers : ReaderNext(r))
\* sync<T> with one non-realtime thread and the realtime readers
ReadersSpec == Init /\ [][ReadersNext]_vars

PubNext == WriterNext("w1") \/ PublishNext("w2") \/ ReaderNext("r1")
\* sync<T> with a second thread that publishes, and one realtime reader
PubSpec == Init /\ [][PubNext]_vars

WritersNext == \E w \in Writers : WriterNext(w)
\* sync<T> with its non-realtime threads alone
WritersSpec == Init /\ [][WritersNext]_vars

SigSpecNext == WriterNext("w1") \/ SigNext
\* signalled_sync<T> with one non-realtime thread and its one realtime thread
SigSpec == Init /\ [][SigSpecNext]_vars

WorkNext == \E w \in Writers : WriterNext(w) \/ ReadNort(w)
\* sync<T> with its non-realtime threads, which also call read(ez::nort)
WorkSpec == Init /\ [][WorkNext]_vars

\* The writer and a reader, with appends that may fail.
AllocNext ==
    \/ WriterNext("w1")
    \/ ReaderNext("r1")
    \/ \E at \in AllocPoints : ModifyAllocFail("w1", at)

AllocSpec == Init /\ [][AllocNext]_vars

\* reads of signalled_sync instances by realtime threads in a debug build
DbgNext == \E i \in Instances, t \in RtThreads : DbgRead(i, t)

DbgSpec == Init /\ [][DbgNext]_vars

\* sync<T> with its non-realtime threads alone, the observer following the edits
EditSpecInit == SyncInit /\ SigInit /\ BallCtor(0) /\ DbgInit /\ ObsInit("edits")

EditSpec == EditSpecInit /\ [][WritersNext]_vars

\* sync<T> with one writer and one reader, the observer following the publish
\* numbers of what the reader's reads return
MonoSpecInit == SyncInit /\ SigInit /\ BallCtor(0) /\ DbgInit /\ ObsInit("mono")

MonoSpec == MonoSpecInit /\ [][Next]_vars

\* sync<T> with one thread that publishes and collects and two reader threads,
\* the observer following the publish / gc discipline and the number of handles
BoundSpecInit == SyncInit /\ SigInit /\ BallCtor(0) /\ DbgInit /\ ObsInit("bound")

BoundNext == PublishNext("w1") \/ GcNext("w1") \/ (\E r \in Readers : ReaderNext(r))

BoundSpec == BoundSpecInit /\ [][BoundNext]_vars

ObsSpecInit == SyncInit /\ SigInit /\ BallCtor(0) /\ DbgInit /\ \E kind \in ObsKinds : ObsInit(kind)
\* Spec with the observer following one of its scenarios
ObsSpec == ObsSpecInit /\ [][Next]_vars

BallSpecInit == SyncInit /\ SigInit /\ BallInit /\ ObsInit("none") /\ DbgInit
BallNext == \E p \in Players : PlayerNext(p)
\* beach_ball<NPlayers> with one thread per player
BallSpec == BallSpecInit /\ [][BallNext]_vars
\* the same with every player thread scheduled fairly, polling and throwing on
BallLiveSpec == BallSpecInit /\ [][BallNext]_vars /\ \A p \in Players : WF_vars(PlayerProgress(p))

\* ------------------------------------------------------------ properties
\* the Slots not flagged dead
NonDead(df) == {i \in 1..Len(df) : ~df[i]}
LiveSlots == {i \in 1..Len(versions) : versions[i] # Absent}
Handles == {r \in Readers : rpc[r] = "holding"}

\* C1 (pin safety): a Slot to which a reader holds a handle is LIVE: its
\* payload is present and garbage_collect has not cleared and dead-flagged it.
C1_PinSafety ==
    \A r \in Handles : versions[rver[r]] # Absent /\ ~dead_flags[rver[r]]

\* C2 (no tearing): a handle returned by sync::read(rt) dereferences to a
\* present payload that some publish call that has started installed; never an
\* absent or partially written one.
C2_NoTearing ==
    \A r \in Handles : versions[rver[r]] \in published

\* C3 (turn exclusivity): at most one player has have_ball == true.
C3_TurnExclusivity == Cardinality({p \in Players : have_ball[p]}) <= 1

\* a player holds the ball while another one is at its compare-exchange
C3_Witness ==
    \E p, q \in Players : p # q /\ have_ball[p] /\ bpc[q] = "cas" /\ last_throw[2] = p

\* C4 (mutual exclusion of the protected work): the functions passed to
\* with_ball by different players never run at the same time, and while one
\* runs no other player holds the ball.
C4_FnExclusive ==
    \A p, q \in Players : (p # q /\ bpc[p] = "fn") => (bpc[q] # "fn" /\ ~have_ball[q])

\* a player runs its function while another one is inside with_ball, polling
C4_Witness ==
    \E p, q \in Players : p # q /\ bpc[p] = "fn" /\ bpc[q] = "cas" /\ bop[q] = "with"

C6_LatestValue == \A r \in Handles : rhist[r].okLit /\ rhist[r].okQuiet

\* a read that started after a publish of a non-default payload had returned,
\* and that overlapped no publish, has returned
C6_Witness ==
    \E r \in Handles :
        rhist[r].lit /\ rhist[r].quiet /\ versions[rver[r]] = 1 /\ last_stored = 1

\* C7 (signal stability): two read(rt) calls of the realtime thread with no
\* increment between them return handles to the same Slot holding the same
\* payload.
C7_SignalStability ==
    shist.n >= 1 => (shist.slot = shist.slot0 /\ shist.val = shist.val0)

\* C8 (signalled refresh): every read(rt) on a signalled_sync returns a
\* non-empty handle whose payload is the one that was the latest published
\* when the first read(rt) of the frame ran.
C8_SignalledRefresh ==
    shist.n >= 1 => (shist.slot # 0 /\ shist.val \in shist.cand)

\* C9 (default publish): with no other operation performed since construction,
\* exactly one Slot is LIVE and read(rt) returns the default T.
C9_DefaultPublish ==
    pristine => /\ Cardinality(LiveSlots) = 1
                /\ \A r \in Handles : versions[rver[r]] = DefaultT

\* a read(rt) has returned on a sync nothing else has touched
C9_Witness == pristine /\ Handles # {}

\* the steps of sync::update and sync::set
EditStep ==
    \E w \in Writers :
        \/ \E pub \in BOOLEAN : UpdateBegin(w, pub)
        \/ UpdateEnd(w)
        \/ \E v \in Values, pub \in BOOLEAN : Set(w, v, pub)

\* C10 (edit is decoupled from publish): a step of update or set, and any step
\* that changes the working value, leaves the published Slot, the Slot
\* collection, the dead flags and the unread flag unchanged.
C10_EditFrame ==
    [][(EditStep \/ working_value' # working_value)
         => UNCHANGED <<current_version_ptr, current_version, versions, dead_flags,
                        unread_value, rver>>]_vars

\* the working value has been edited and not published: a reader holds the
\* payload published before
C10_Witness ==
    /\ wpc["w1"] = "idle"
    /\ working_value = 1
    /\ versions[current_version_ptr] = 0
    /\ \E r \in Handles : rver[r] = current_version_ptr

\* C11 (working-copy isolation): whenever no update is in progress the working
\* value equals the completed updates and sets composed in the order of their
\* completion, and read(nort) only ever returns such a value.
C11_WorkingIsolation ==
    /\ applied \in Values
    /\ mutex = NoThread => working_value = applied
    /\ nort_ret[1] = nort_ret[2]

\* a thread is inside update, working_value_ moved from, after another thread's
\* read(nort) has returned the result of an earlier edit
C11_Witness ==
    /\ \E w \in Writers : wpc[w] = "update"
    /\ working_value = Moved
    /\ nort_ret = <<1, 1>>

\* C12 (reclamation progress): when a gc() during which no handle to a Slot
\* other than the published one is or has been held runs to completion, it
\* leaves exactly one Slot that is not flagged dead, the published one, and
\* only that Slot has a payload.
C12_ReclaimProgress ==
    [][((\E w \in Writers : wpc[w] = "gc_loop" /\ wpc'[w] = "idle")
            /\ obs.kind = "gc" /\ obs.stage = 1)
         => /\ NonDead(dead_flags') = {current_version_ptr'}
            /\ {i \in 1..Len(versions') : versions'[i] # Absent} = {current_version_ptr'}]_vars

\* such a gc() is about to return, having examined two Slots or more, while a
\* reader holds a handle to the published Slot
C12_Witness ==
    /\ obs.kind = "gc" /\ obs.stage = 1
    /\ \E w \in Writers : wpc[w] = "gc_loop" /\ widx[w] > Len(index_buffer)
    /\ Len(index_buffer) >= 2
    /\ \E r \in Handles : rver[r] = current_version_ptr

\* value::modify, run by w, stores current_version_ptr_ (its index is widx[w])
StoreStep(w) == wpc[w] = "mod_store" /\ wpc'[w] = "pub_unread"

\* C13 as claimed (memory reuse): for publishes P1; P2; gc; P3 with no reader
\* handle held or taken, P3's payload is stored in the Slot that backed P1's.
C13_ReusesP1Slot ==
    [][\A w \in Writers :
          (StoreStep(w) /\ obs.kind = "reuse" /\ obs.stage = 3) => widx[w] = obs.slot]_vars

\* C13 as amended: P3's payload is stored in the lowest-indexed Slot other
\* than the one backing P2's payload; that is P1's Slot when P1's Slot is the
\* first Slot of the collection.
C13_ReusesLowestSlot ==
    [][\A w \in Writers :
          (StoreStep(w) /\ obs.kind = "reuse" /\ obs.stage = 3)
            => /\ widx[w] = (IF current_version_ptr = 1 THEN 2 ELSE 1)
               /\ obs.slot = 1 => widx[w] = obs.slot]_vars

\* P3 is about to store into the first Slot, which backed P1's payload
C13_Witness ==
    /\ obs.kind = "reuse" /\ obs.stage = 3 /\ obs.slot = 1
    /\ \E w \in Writers : wpc[w] = "mod_store" /\ widx[w] = 1

\* C14 (as claimed): on a new sync, after set_publish(A), a read(ez::rt) that
\* returns H, set_publish(B), a garbage_collect with H held, the drop of H and
\* a second garbage_collect, the Slot that held A is empty (payload destroyed,
\* dead-flagged) and the next publish stores its payload in that Slot.
C14_ReusesASlotNext ==
    [][(obs.kind = "pin" /\ obs.stage = 9) =>
          /\ versions[obs.slot] = Absent
          /\ dead_flags[obs.slot]
          /\ \A w \in Writers : StoreStep(w) => widx[w] = obs.slot]_vars

\* C14 (amended): after the same steps the Slot that held A is empty; the next
\* publish stores its payload in the Slot of the construction-time publish (the
\* lowest-indexed empty Slot), and the publish after that one in the Slot that
\* held A.
C14_ReusesASlotLater ==
    [][/\ (obs.kind = "pin" /\ obs.stage = 9) =>
             /\ versions[obs.slot] = Absent
             /\ dead_flags[obs.slot]
             /\ \A w \in Writers :
                    StoreStep(w) => widx[w] = sync_ctor.current_version_ptr
       /\ (obs.kind = "pin" /\ obs.stage = 10) =>
             \A w \in Writers : StoreStep(w) => widx[w] = obs.slot]_vars

\* the second publish after the second garbage_collect is about to store into
\* the Slot that held A
C14_Witness ==
    /\ obs.kind = "pin" /\ obs.stage = 10
    /\ current_version_ptr = sync_ctor.current_version_ptr
    /\ \E w \in Writers : wpc[w] = "mod_store" /\ widx[w] = obs.slot

\* no publish and no read(ez::rt) is in progress
Quiescent ==
    /\ \A w \in Writers : wpc[w] \notin PubPcs
    /\ \A r \in Readers : rpc[r] \notin InRead
    /\ spc \notin SigInRead

\* C15: is_unread() is true right after construction and after every publish,
\* and in a state where no publish and no read(ez::rt) is in progress it is
\* false only if some read(ez::rt) has returned the payload of the most recent
\* publish.
C15_UnreadMeaning ==
    [][/\ (\E w \in Writers : wpc[w] = "pub_unread" /\ wpc'[w] = "idle") => unread_value'
       /\ (obs'.kind = "unread" /\ Quiescent' /\ ~unread_value') => obs'.stage = 1]_vars

\* player p makes the step that leaves program position pc
Leaves(p, pc) == bpc[p] = pc /\ bpc'[p] # pc

\* C16: catch_ball by player p succeeds iff at its compare-exchange thrown_to_
\* equals p (p is the first catcher and nobody has caught yet, or the last
\* throw targeted p); on success thrown_to_ becomes -1 and then p's have_ball_
\* true; on failure thrown_to_ and all have_ball_ flags are unchanged.  So after
\* p throws to q, p's catch_ball fails until some player throws to p again.
C16_CatchIffThrownTo ==
    [][\A p \in Players :
          /\ Leaves(p, "cas") =>
                IF thrown_to = p
                THEN /\ bpc'[p] = "caught"
                     /\ thrown_to' = -1
                     /\ last_throw = <<-1, -1>> \/ last_throw[2] = p
                ELSE /\ bpc'[p] = "idle"
                     /\ thrown_to' = thrown_to
                     /\ have_ball' = have_ball
          /\ Leaves(p, "caught") =>
                /\ have_ball'[p]
                /\ thrown_to' = thrown_to]_vars

\* q has caught the ball p threw to it while p is at its compare-exchange
C16_Witness ==
    \E p, q \in Players :
        /\ p # q
        /\ last_throw = <<p, q>>
        /\ bpc[q] = "caught"
        /\ bpc[p] = "cas"

\* the players whose have_ball_ is true
Holders == {p \in Players : have_ball[p]}

\* the players inside throw_to, between have_ball_ = false and the store
Throwing == {p \in Players : bpc[p] = "throw_store"}

\* C17 (as claimed): counting a catch at each successful catch_ball and a throw
\* at each completed throw_to, the sum of catches - throws is 1 if exactly one
\* player has have_ball_ and 0 otherwise; it is never negative nor above 1.
C17_TurnConservation ==
    /\ net_catches = IF Cardinality(Holders) = 1 THEN 1 ELSE 0
    /\ net_catches \in {0, 1}

\* C17 (amended): the sum is 1 if exactly one player has have_ball_ or is
\* inside throw_to having cleared it, and 0 otherwise; never negative nor
\* above 1.
C17_TurnConservationOutsideThrow ==
    /\ net_catches = IF Cardinality(Holders \cup Throwing) = 1 THEN 1 ELSE 0
    /\ net_catches \in {0, 1}
    /\ Throwing = {} => net_catches = (IF Cardinality(Holders) = 1 THEN 1 ELSE 0)

\* a player holds the ball after an earlier catch and throw have completed
C17_Witness ==
    /\ net_catches = 1
    /\ last_throw # <<-1, -1>>
    /\ \E p \in Players : have_ball[p] /\ bpc[p] = "idle"

\* the players between their successful compare-exchange and have_ball_ = true
Catching == {p \in Players : bpc[p] = "caught"}

\* C18 (as claimed): thrown_to_ is in -1..N-1; whenever some player has
\* have_ball_ it is -1; and it is -1 only if some player has have_ball_ or is
\* between its successful compare-exchange and setting have_ball_.
C18_HolderEncoding ==
    /\ thrown_to \in -1..(NPlayers - 1)
    /\ Holders # {} => thrown_to = -1
    /\ thrown_to = -1 => Holders # {} \/ Catching # {}

\* C18 (amended): as above, but thrown_to_ is -1 also while a player is inside
\* throw_to, between clearing its have_ball_ and storing the target.
C18_HolderEncodingWithThrow ==
    /\ thrown_to \in -1..(NPlayers - 1)
    /\ Holders # {} => thrown_to = -1
    /\ thrown_to = -1 <=> Cardinality(Holders \cup Catching \cup Throwing) = 1
    /\ thrown_to # -1 => Holders \cup Catching \cup Throwing = {}

\* q holds the ball p threw to it (thrown_to_ is -1) while p attempts a catch
C18_Witness ==
    \E p, q \in Players :
        /\ p # q
        /\ have_ball[q]
        /\ thrown_to = -1
        /\ last_throw = <<p, q>>
        /\ bpc[p] = "cas"

\* C19: with_ball<target>(fn) calls fn once if the caller already holds the
\* ball or its catch attempt succeeds, and then throws the ball to target (on
\* return the caller's have_ball_ is false and thrown_to_ is target); if the
\* catch attempt fails, fn is not called, no retry is made and thrown_to_ and
\* every have_ball_ are unchanged.
C19_WithBallOutcome ==
    [][\A p \in Players :
          /\ (bpc[p] # "fn" /\ bpc'[p] = "fn") =>
                /\ bop'[p] = "with"
                /\ have_ball'[p]
                /\ \/ bpc[p] = "idle" /\ have_ball[p]
                   \/ bpc[p] = "caught" /\ bop[p] = "with"
          /\ (bop[p] = "with" /\ Leaves(p, "caught")) => bpc'[p] = "fn"
          /\ (bop[p] = "with" /\ Leaves(p, "cas") /\ thrown_to = p) => bpc'[p] = "caught"
          /\ (bop[p] = "with" /\ Leaves(p, "cas") /\ thrown_to # p) =>
                /\ bpc'[p] = "idle"
                /\ thrown_to' = thrown_to
                /\ have_ball' = have_ball
          /\ Leaves(p, "fn") =>
                /\ bpc'[p] = "throw_store"
                /\ btarget'[p] = btarget[p]
                /\ ~have_ball'[p]
          /\ Leaves(p, "throw_store") =>
                /\ bpc'[p] = "idle"
                /\ thrown_to' = btarget[p]
                /\ ~have_ball'[p]]_vars

\* p runs fn inside with_ball after catching a ball thrown to it, while q's
\* with_ball is at a compare-exchange that will fail
C19_Witness ==
    \E p, q \in Players :
        /\ p # q
        /\ bpc[p] = "fn"
        /\ last_throw[2] = p
        /\ bpc[q] = "cas" /\ bop[q] = "with"

\* C20: throw_to called by a player whose have_ball_ is false reports
\* std::logic_error and leaves thrown_to_ and every have_ball_ unchanged (a ball
\* held by or in flight to another player is not disturbed); a throw_to goes on
\* to clear have_ball_ and store only for a player that holds the ball.
C20_ThrowWithoutBallRejected ==
    [][\A p \in Players :
          /\ (bpc[p] = "idle" /\ ~have_ball[p] /\ ~berr[p] /\ berr'[p]) =>
                /\ thrown_to' = thrown_to
                /\ have_ball' = have_ball
                /\ bpc' = bpc
          /\ (bpc[p] # "throw_store" /\ bpc'[p] = "throw_store") => have_ball[p]]_vars

\* p's throw_to has been rejected while another player holds the ball or it is
\* in flight to another player
C20_Witness ==
    \E p, q \in Players :
        /\ p # q
        /\ bpc[p] = "idle" /\ ~have_ball[p] /\ berr[p]
        /\ have_ball[q] \/ thrown_to = q
        /\ last_throw # <<-1, -1>>

\* C21: catch_ball called by a player whose have_ball_ is true reports
\* std::logic_error without attempting the compare-exchange and leaves
\* thrown_to_ and every have_ball_ unchanged; the compare-exchange is reached
\* only by a player whose have_ball_ is false.
C21_CatchWhileHoldingRejected ==
    [][\A p \in Players :
          /\ (bpc[p] = "idle" /\ have_ball[p] /\ ~berr[p] /\ berr'[p]) =>
                /\ thrown_to' = thrown_to
                /\ have_ball' = have_ball
                /\ bpc' = bpc
          /\ (bpc[p] # "cas" /\ bpc'[p] = "cas") => ~have_ball[p]]_vars

\* p's catch_ball has been rejected while it holds a ball another player
\* threw to it
C21_Witness ==
    \E p \in Players :
        /\ bpc[p] = "idle" /\ have_ball[p] /\ berr[p]
        /\ thrown_to = -1
        /\ last_throw[2] = p

\* a step of a realtime thread inside read(ez::rt)
RtStep ==
    \/ <<spc, sver, local_signal_value, signalled_value>>' #
           <<spc, sver, local_signal_value, signalled_value>>
    \/ \E r \in Readers : rpc[r] \in {"idle", "loaded", "copied"} /\ rpc'[r] # rpc[r]

\* C22: read(ez::rt) on value, sync and signalled_sync never takes writer_mutex_
\* or mutex_ and never appends or clears a Slot; whatever mutex a writer holds,
\* the next step of a read is enabled, and a read is at most four steps
\* (refresh test, load, copy, exchange).
C22_RealtimeNeverBlocks ==
    /\ [][RtStep =>
             /\ UNCHANGED <<mutex, writer_mutex, versions, dead_flags>>
             /\ UNCHANGED <<current_version_ptr, current_version, writer_value>>]_vars
    /\ [](/\ spc = "idle" => ENABLED (SigReadRefresh \/ SigReadCached)
          /\ spc = "s_load" => ENABLED SigLoad
          /\ spc = "s_copy" => ENABLED SigCopy
          /\ spc = "s_xchg" => ENABLED SigExchange
          /\ \A r \in Readers :
                /\ rpc[r] = "idle" => ENABLED RtLoad(r)
                /\ rpc[r] = "loaded" => ENABLED RtCopy(r)
                /\ rpc[r] = "copied" => ENABLED RtExchange(r))

\* the realtime thread is about to return from a read while a writer holds
\* writer_mutex_ inside modify
C22_Witness ==
    /\ spc = "s_xchg"
    /\ writer_mutex # NoThread
    /\ \E w \in Writers : wpc[w] = "mod_set"

\* writer w leaves value::modify (and sync::publish) by an allocation failure
AllocFailStep(w) == wpc[w] = "mod_lock" /\ wpc'[w] = "idle"

\* C23: when growing the Slot collection fails inside modify / publish, the
\* writer mutex is released and the state equals the state before the call:
\* same published Slot and payload, same writer value, versions_ and
\* dead_flags_ unchanged and of equal length, unread flag unchanged.
C23_AllocFailureIntact ==
    [][\A w \in Writers :
          AllocFailStep(w) =>
              /\ writer_mutex' = NoThread
              /\ UNCHANGED <<current_version_ptr, current_version, unread_value>>
              /\ writer_value' = writer_value
              /\ versions' = versions
              /\ dead_flags' = dead_flags
              /\ Len(versions') = Len(dead_flags')]_vars

\* C24: in a debug build the assertion of signalled_sync::read(ez::rt) trips
\* exactly when the instance it is called on was first read by a different
\* thread; distinct instances, each read by its own single thread, never trip
\* it.
C24_SingleReaderPerInstance ==
    [][\A i \in Instances, t \in RtThreads :
          (dbg_last'.inst = i /\ dbg_last'.thread = t /\ dbg_last' # dbg_last) =>
              (dbg_last'.tripped <=> (dbg_first[i] # 0 /\ dbg_first[i] # t))]_vars

\* the lowest index of a dead-flagged Slot
LowestDead(df) == CHOOSE i \in 1..Len(df) : df[i] /\ \A j \in 1..(i - 1) : ~df[j]

\* writer w makes the step of value::modify that takes writer_mutex_
LockStep(w) == wpc[w] = "mod_lock" /\ wpc'[w] = "mod_set"

\* C25: the Slot collection never shrinks; a Slot is appended only inside
\* modify and only when no Slot is flagged dead; when a Slot is flagged dead,
\* modify stores the new payload into the lowest-indexed dead Slot and appends
\* nothing; garbage_collect never changes the number of Slots.
C25_GrowthPolicy ==
    [][/\ Len(versions') >= Len(versions)
       /\ Len(versions') # Len(versions) =>
             /\ Len(versions') = Len(versions) + 1
             /\ ~HasDead(dead_flags)
             /\ \E w \in Writers : LockStep(w) /\ widx'[w] = Len(versions')
       /\ \A w \in Writers :
             /\ (LockStep(w) /\ HasDead(dead_flags)) =>
                   /\ widx'[w] = LowestDead(dead_flags)
                   /\ Len(versions') = Len(versions)
             /\ (wpc[w] = "mod_set" /\ wpc'[w] = "mod_store") =>
                   versions'[widx[w]] = warg[w]
             /\ (wpc[w] \in {"gc_loop", "gc_clear"} \/ wpc'[w] = "gc_loop") =>
                   Len(versions') = Len(versions)]_vars

\* the collection has grown to three Slots and a modify is storing into a
\* dead-flagged Slot that is not the last one
C25_Witness ==
    /\ Len(versions) >= 3
    /\ \E w \in Writers : wpc[w] = "mod_set" /\ widx[w] < Len(versions)
    /\ \E i \in 1..Len(dead_flags) : dead_flags[i] /\ versions[i] = Absent

\* no value::modify is in progress
NoModify == \A w \in Writers : wpc[w] \notin {"mod_set", "mod_store"}

\* C26: in every state where no modify is in progress, exactly one Slot is
\* current: it is the Slot held by the writer-held reference, it is not flagged
\* dead, its payload is present and its reference count is at least 2, so
\* garbage_collect never clears the currently published Slot even when no
\* reader has acquired it.
C26_CurrentPinned ==
    /\ NoModify =>
          /\ current_version_ptr \in 1..Len(versions)
          /\ current_version = current_version_ptr
          /\ ~dead_flags[current_version_ptr]
          /\ versions[current_version_ptr] \in Values \cup {Moved}
          /\ use_count(current_version_ptr) >= 2
    /\ \A w \in Writers :
          wpc[w] = "gc_clear" => index_buffer[widx[w]] # current_version_ptr

\* a garbage_collect has gone through every Slot, the one of the latest publish
\* included, while no reader holds or is acquiring a handle
C26_Witness ==
    /\ current_version_ptr > 1
    /\ HeldSlots = {}
    /\ \A r \in Readers : rpc[r] = "idle"
    /\ \E w \in Writers : wpc[w] = "gc_loop" /\ widx[w] > Len(index_buffer)
    /\ \E i \in 1..Len(versions) : dead_flags[i]

\* no value::garbage_collect is in progress
NoGc == \A w \in Writers : wpc[w] \notin {"gc_loop", "gc_clear"}

\* C27: in every state in which no modify and no garbage_collect is in
\* progress (readers may be at any step of read), dead_flags_ has the length of
\* versions_, a Slot is flagged dead iff its payload is absent, and every Slot
\* flagged dead has reference count at most 1.
C27_DeadFlagConsistency ==
    (NoModify /\ NoGc) =>
        /\ Len(dead_flags) = Len(versions)
        /\ \A i \in 1..Len(versions) :
              /\ dead_flags[i] <=> versions[i] = Absent
              /\ dead_flags[i] => use_count(i) <= 1

\* C28: sync_signal starts at 1, each increment raises it by exactly 1, no
\* operation lowers it, and the last-seen signal value of a signalled_sync
\* never exceeds the signal value and never decreases.
C28_SignalMonotonic ==
    /\ signal_value = 1
    /\ [][/\ signal_value' \in {signal_value, signal_value + 1}
          /\ local_signal_value' >= local_signal_value
          /\ local_signal_value' <= signal_value']_vars

\* the signal has been incremented and the signalled_sync has seen the new value
C28_Witness ==
    /\ signal_value > 1
    /\ local_signal_value = signal_value
    /\ spc = "idle"

\* every update, set and publish call has returned
WritersQuiet == (\A w \in Writers : wpc[w] = "idle") /\ mutex = NoThread /\ writer_mutex = NoThread

\* C29: when all the update_publish / set_publish / publish calls of the writer
\* threads have returned, and no update or set has completed that was not
\* followed by a publish, the published payload (what read(ez::rt) returns)
\* equals the working value (what read(ez::nort) returns).
C29_PublishedEqualsWorking ==
    (obs.kind = "edits" /\ obs.stage = 0 /\ WritersQuiet) =>
        versions[current_version_ptr] = working_value

\* C30: the payload installed by publish is the working value as it stood
\* after some completed update or set (or the initial default): never the
\* working value in the middle of an update (its moved-from state).
C30_PublishSeesCompletedEdits ==
    /\ \A w \in Writers : wpc[w] \in PubPcs => warg[w] \in Values
    /\ \A i \in 1..Len(versions) : versions[i] # Moved

\* C31: numbering publishes in the order in which value::modify takes the
\* writer mutex, the publish numbers of the payloads returned by one thread's
\* successive read(ez::rt) calls never decrease.
C31_MonotonicReads == obs.kind = "mono" => obs.stage # 2

\* C32: the payload seen through a held handle never changes, and modify never
\* chooses or writes a Slot to which a reader holds a handle.
C32_HeldPayloadImmutable ==
    [][/\ \A r \in Readers :
             (rpc[r] = "holding" /\ rpc'[r] = "holding") =>
                 versions'[rver[r]] = versions[rver[r]]
       /\ \A w \in Writers :
             /\ LockStep(w) => widx'[w] \notin {rver[r] : r \in Handles}
             /\ (wpc[w] = "mod_set" /\ wpc'[w] = "mod_store") =>
                   widx[w] \notin {rver[r] : r \in Handles}]_vars

\* C33: if a garbage_collect is run to completion after every publish and at
\* most R handles exist at any time, the number of Slots never exceeds R + 2
\* (checked with R the highest number of handles that have existed so far).
C33_BoundedSlots ==
    (obs.kind = "bound" /\ obs.stage # NoScript) => Len(versions) <= obs.slot + 2

=========================================================================
